---- MODULE Spec2Model ----
(***************************************************************************)
(* Model of the selection policy layer of opencog/generate:                *)
(* SimpleCallback (SimpleCallback.h, SimpleCallback.cc), the callback     *)
(* contract it implements (GenerateCallback.h), and the scoping of the     *)
(* state of RandomCallback (RandomCallback.h).                             *)
(*                                                                         *)
(* Handles are modelled by value.  A section is a record                   *)
(* [lex, inst]: `lex` names the lexical entry (the point plus its          *)
(* connector sequence), `inst` is 0 for the dictionary's own section and   *)
(* k > 0 for the k-th unique copy made by create_unique_section.           *)
(* Structural equality of atoms (operator== on Atom) is record equality.   *)
(***************************************************************************)
EXTENDS Integers, Sequences, FiniteSets, TLC

\* ------------------------------------------------------------------
\* Bounds of the model.
MaxCalls == 5       \* calls the driver makes in one behaviour
MaxCallsAll == 4    \* the same, when the calls are of every operation

\* ------------------------------------------------------------------
\* The universe of handles.
Connectors == {"c1", "c2"}
LexEntries == {"A", "B"}

\* The connector sequence of a lexical entry (outgoing atom 1 of a section).
ConSeq(e) == IF e = "A" THEN <<"c1", "c2">> ELSE <<"c1", "c1">>

Section(e, i) == [lex |-> e, inst |-> i]

\* Handle::UNDEFINED, the null handle.
UNDEFINED == Section("UNDEFINED", 0)

\* The lexicons a Dictionary may be built from.
Lexicons == {<<>>, <<"B">>, <<"A", "B">>, <<"B", "A">>}

Range(s) == {s[i] : i \in 1..Len(s)}

\* Frame::_open_sections, in iteration order: the frames handed to select().
Frames ==
    {<<>>, <<Section("A", 0)>>, <<Section("A", 0), Section("B", 0)>>}

\* The sections the driver extends from: the root section, or the section
\* the previous call returned.
FromSections(r) == {Section("A", 0)} \cup ({r} \ {UNDEFINED})

\* ------------------------------------------------------------------
\* HandleUCounter / HandleSeqMap: maps keyed by handle.
EmptyMap == [x \in {} |-> 0]
Get(m, k, d) == IF k \in DOMAIN m THEN m[k] ELSE d
Put(m, k, v) == [x \in (DOMAIN m) \cup {k} |-> IF x = k THEN v ELSE m[x]]
Erase(m, k) == [x \in (DOMAIN m) \ {k} |-> m[x]]

EmptyOpenSelections == [_opensect |-> EmptyMap, _openit |-> EmptyMap]

VARIABLES
    _dict,                   \* the lexicon the Dictionary was built from
    allow_self_connections,  \* GenerateCallback::allow_self_connections
    _lexlit,                 \* SimpleCallback::_lexlit
    _lexlit_stack,           \* SimpleCallback::_lexlit_stack
    _opensel,                \* SimpleCallback::_opensel
    _opensel_stack,          \* SimpleCallback::_opensel_stack
    nuniq,                   \* unique sections made so far
    links,                   \* the links held by the graph substrate
    status,                  \* "running", "aborted" or "undefined"
    ret,                     \* the handle returned by the last call
    last,                    \* the last call: its name, arguments, prior state
    prev_op,                 \* the name of the call before the last one
    ncalls,                  \* calls made so far
    run,                     \* results of the current unbroken run of select()
    exh,                     \* connectors whose lexicon ran out at this level
    exh_stack,               \* exh at each push_odometer not yet popped
    at_push_frame,           \* cursor state at each push_frame not yet popped
    at_push_odometer,        \* _lexlit at each push_odometer not yet popped
    selects_only,            \* only select() was called since the last push_frame
    made,                    \* the link each make_link call returned
    solutions,               \* the frames handed to the solution recorder
    count,                   \* how often each operation was called
    random                   \* the members of a RandomCallback

config == <<_dict, allow_self_connections>>
policy == <<_lexlit, _lexlit_stack, _opensel, _opensel_stack>>
history == <<run, exh, exh_stack, at_push_frame, at_push_odometer,
             selects_only, made>>
vars == <<config, policy, nuniq, links, status, ret, last, prev_op, ncalls,
          history, solutions, count, random>>

\* ------------------------------------------------------------------
\* Dictionary::sections(con): the sections of the lexicon that contain
\* the connector, in lexicon order.
RECURSIVE SectionsOf(_, _)
SectionsOf(lexicon, con) ==
    IF lexicon = <<>> THEN <<>>
    ELSE LET rest == SectionsOf(Tail(lexicon), con)
         IN  IF con \in Range(ConSeq(Head(lexicon)))
             THEN <<Section(Head(lexicon), 0)>> \o rest
             ELSE rest

sections(con) == SectionsOf(_dict, con)

\* LinkStyle::create_unique_section: a copy of the dictionary section
\* that differs from every section that exists.
create_unique_section(sect, n) == Section(sect.lex, n + 1)

\* ------------------------------------------------------------------
\* select_from_lexis without the increment of the cursor.
select_from_lexis_noinc(lexlit, n, to_con) ==
    LET to_sects == sections(to_con)
        curit == Get(lexlit, to_con, 0)
    IN  IF curit = 0
        THEN IF Len(to_sects) = 0
             THEN [h |-> UNDEFINED, lexlit |-> lexlit, n |-> n]
             ELSE [h |-> create_unique_section(to_sects[1], n),
                   lexlit |-> Put(lexlit, to_con, 1), n |-> n + 1]
        ELSE IF Len(to_sects) <= curit
             THEN [h |-> UNDEFINED, lexlit |-> Erase(lexlit, to_con), n |-> n]
             ELSE [h |-> create_unique_section(to_sects[curit + 1], n),
                   lexlit |-> lexlit, n |-> n + 1]

\* select_from_lexis reading the cursor with _lexlit[to_con], which
\* inserts a zero entry, in place of _lexlit.get(to_con, 0).
select_from_lexis_insert(lexlit, n, to_con) ==
    LET to_sects == sections(to_con)
        curit == Get(lexlit, to_con, 0)
        lexlit0 == Put(lexlit, to_con, curit)
    IN  IF curit = 0
        THEN IF Len(to_sects) = 0
             THEN [h |-> UNDEFINED, lexlit |-> lexlit0, n |-> n]
             ELSE [h |-> create_unique_section(to_sects[1], n),
                   lexlit |-> Put(lexlit, to_con, 1), n |-> n + 1]
        ELSE IF Len(to_sects) <= curit
             THEN [h |-> UNDEFINED, lexlit |-> Erase(lexlit, to_con), n |-> n]
             ELSE [h |-> create_unique_section(to_sects[curit + 1], n),
                   lexlit |-> Put(lexlit, to_con, curit + 1), n |-> n + 1]

\* select_from_lexis clearing the whole cursor map at the end of a list.
select_from_lexis_clear(lexlit, n, to_con) ==
    LET to_sects == sections(to_con)
        curit == Get(lexlit, to_con, 0)
    IN  IF curit = 0
        THEN IF Len(to_sects) = 0
             THEN [h |-> UNDEFINED, lexlit |-> lexlit, n |-> n]
             ELSE [h |-> create_unique_section(to_sects[1], n),
                   lexlit |-> Put(lexlit, to_con, 1), n |-> n + 1]
        ELSE IF Len(to_sects) <= curit
             THEN [h |-> UNDEFINED, lexlit |-> EmptyMap, n |-> n]
             ELSE [h |-> create_unique_section(to_sects[curit + 1], n),
                   lexlit |-> Put(lexlit, to_con, curit + 1), n |-> n + 1]

\* SimpleCallback::select_from_lexis.  `n` is the number of unique
\* sections made so far.
select_from_lexis(lexlit, n, to_con) ==
    LET to_sects == sections(to_con)
        curit == Get(lexlit, to_con, 0)
    IN  IF curit = 0
        THEN IF Len(to_sects) = 0
             THEN [h |-> UNDEFINED, lexlit |-> lexlit, n |-> n]
             ELSE [h |-> create_unique_section(to_sects[1], n),
                   lexlit |-> Put(lexlit, to_con, 1), n |-> n + 1]
        ELSE IF Len(to_sects) <= curit
             THEN [h |-> UNDEFINED, lexlit |-> Erase(lexlit, to_con), n |-> n]
             ELSE [h |-> create_unique_section(to_sects[curit + 1], n),
                   lexlit |-> Put(lexlit, to_con, curit + 1), n |-> n + 1]

\* The while loop of SimpleCallback::check_self.
RECURSIVE check_self_loop(_, _, _, _, _)
check_self_loop(sel, to_sects, fm_sect, to_con, fit) ==
    IF to_sects[fit + 1] # fm_sect
    THEN [h |-> to_sects[fit + 1], sel |-> sel]
    ELSE LET sel2 == [sel EXCEPT !._openit = Put(@, to_con, fit + 1)]
         IN  IF Len(to_sects) <= fit + 1
             THEN [h |-> UNDEFINED, sel |-> sel2]
             ELSE check_self_loop(sel2, to_sects, fm_sect, to_con, fit + 1)

\* check_self without the test for a self-connection.
check_self_nofilter(sel, to_sects, fm_sect, to_con, fit) ==
    IF Len(to_sects) <= fit
    THEN [h |-> UNDEFINED, sel |-> sel]
    ELSE [h |-> to_sects[fit + 1],
          sel |-> [sel EXCEPT !._openit = Put(@, to_con, Get(@, to_con, 0) + 1)]]

\* check_self that never consults allow_self_connections.
check_self_alwaysfilter(sel, to_sects, fm_sect, to_con, fit) ==
    IF Len(to_sects) <= fit
    THEN [h |-> UNDEFINED, sel |-> sel]
    ELSE check_self_loop([sel EXCEPT
                            !._openit = Put(@, to_con, Get(@, to_con, 0) + 1)],
                         to_sects, fm_sect, to_con, fit)

\* SimpleCallback::check_self.
check_self(sel, to_sects, fm_sect, to_con, fit) ==
    IF Len(to_sects) <= fit
    THEN [h |-> UNDEFINED, sel |-> sel]
    ELSE LET sel1 == [sel EXCEPT
                        !._openit = Put(@, to_con, Get(@, to_con, 0) + 1)]
         IN  IF allow_self_connections
             THEN [h |-> to_sects[fit + 1], sel |-> sel1]
             ELSE check_self_loop(sel1, to_sects, fm_sect, to_con, fit)

\* The candidate list built by select_from_open: one entry per connector
\* of an open section that equals to_con.
RECURSIVE Matches(_, _, _)
Matches(sect, conseq, to_con) ==
    IF conseq = <<>> THEN <<>>
    ELSE (IF Head(conseq) = to_con THEN <<sect>> ELSE <<>>)
         \o Matches(sect, Tail(conseq), to_con)

RECURSIVE OpenCandidates(_, _)
OpenCandidates(open_sections, to_con) ==
    IF open_sections = <<>> THEN <<>>
    ELSE Matches(Head(open_sections), ConSeq(Head(open_sections).lex), to_con)
         \o OpenCandidates(Tail(open_sections), to_con)

\* SimpleCallback::select_from_open.
select_from_open(sel, open_sections, fm_sect, to_con) ==
    LET fit == Get(sel._openit, to_con, 0)
    IN  IF 0 < fit
        THEN \* _opensect[to_con] default-constructs a missing entry
             LET sel1 == [sel EXCEPT !._opensect =
                            IF to_con \in DOMAIN @ THEN @
                            ELSE Put(@, to_con, <<>>)]
             IN  check_self(sel1, sel1._opensect[to_con], fm_sect, to_con, fit)
        ELSE LET to_sects == OpenCandidates(open_sections, to_con)
             IN  IF Len(to_sects) = 0
                 THEN [h |-> UNDEFINED, sel |-> sel]
                 ELSE check_self([sel EXCEPT !._openit = Put(@, to_con, 0)],
                                 to_sects, fm_sect, to_con, 0)

\* select without the test for a recorded open-candidate list.
select_fallthrough(sel, lexlit, n, open_sections, fm_sect, to_con) ==
    LET o == select_from_open(sel, open_sections, fm_sect, to_con)
    IN  IF o.h # UNDEFINED
        THEN [h |-> o.h, sel |-> o.sel, lexlit |-> lexlit, n |-> n]
        ELSE LET l == select_from_lexis(lexlit, n, to_con)
             IN  [h |-> l.h, sel |-> o.sel, lexlit |-> l.lexlit, n |-> l.n]

\* select asking the lexicon before the open sections.
select_lexis_first(sel, lexlit, n, open_sections, fm_sect, to_con) ==
    LET l == select_from_lexis(lexlit, n, to_con)
    IN  IF l.h # UNDEFINED
        THEN [h |-> l.h, sel |-> sel, lexlit |-> l.lexlit, n |-> l.n]
        ELSE LET o == select_from_open(sel, open_sections, fm_sect, to_con)
             IN  [h |-> o.h, sel |-> o.sel, lexlit |-> l.lexlit, n |-> l.n]

\* SimpleCallback::select.
select(sel, lexlit, n, open_sections, fm_sect, to_con) ==
    LET o == select_from_open(sel, open_sections, fm_sect, to_con)
    IN  IF o.h # UNDEFINED
        THEN [h |-> o.h, sel |-> o.sel, lexlit |-> lexlit, n |-> n]
        ELSE IF to_con \in DOMAIN o.sel._opensect
             THEN [h |-> UNDEFINED, sel |-> o.sel, lexlit |-> lexlit, n |-> n]
             ELSE LET l == select_from_lexis(lexlit, n, to_con)
                  IN  [h |-> l.h, sel |-> o.sel, lexlit |-> l.lexlit, n |-> l.n]


\* ------------------------------------------------------------------
\* LinkStyle::create_undirected_link / have_undirected_link: an edge holds
\* the two connectors and the unordered pair of the points it joins.
UndirectedLink(fm_con, to_con, fm_pnt, to_pnt) ==
    [cons |-> <<fm_con, to_con>>, pts |-> {fm_pnt, to_pnt}]

\* The argument tuples (fm_con, to_con, fm_pnt, to_pnt) the driver hands to
\* make_link and have_link.
LinkArgs ==
    {<<"c1", "c2", "p1", "p2">>, <<"c1", "c2", "p2", "p1">>,
     <<"c2", "c2", "p1", "p3">>, <<"c1", "c1", "p2", "p3">>}

\* ------------------------------------------------------------------
\* Bookkeeping of the calls.
Call(op, a) == [op |-> op, a |-> a]
NoArgs == <<>>
NoRun == [fresh |-> FALSE, outs |-> <<>>]

\* The cursor state of the policy, as a call finds it.
Prior ==
    [lexlit |-> _lexlit, opensel |-> _opensel, lexlit_stack |-> _lexlit_stack,
     opensel_stack |-> _opensel_stack, exh |-> exh]

\* RandomCallback::OpenSelections with nothing recorded.
EmptyRandomSelections == [_opensect |-> EmptyMap, _opendi |-> EmptyMap]

\* The members of a RandomCallback right after construction.
NewRandomCallback ==
    [_distmap |-> EmptyMap, _opensel |-> EmptyRandomSelections,
     _opensel_stack |-> <<>>]

Top(stack) == stack[Len(stack)]
Pop(stack) == SubSeq(stack, 1, Len(stack) - 1)

\* The driver may make another call.
Running == status = "running" /\ ncalls < MaxCalls

Operations ==
    {"select", "make_link", "have_link", "push_frame", "pop_frame",
     "push_odometer", "pop_odometer", "solution"}

Counted(op) == count' = [count EXCEPT ![op] = @ + 1]

Record(op, a) ==
    /\ last' = Call(op, a)
    /\ prev_op' = last.op
    /\ ncalls' = ncalls + 1
    /\ Counted(op)

Init ==
    /\ _dict \in Lexicons
    /\ allow_self_connections \in BOOLEAN
    /\ _lexlit = EmptyMap
    /\ _lexlit_stack = <<>>
    /\ _opensel = EmptyOpenSelections
    /\ _opensel_stack = <<>>
    /\ nuniq = 0
    /\ links = {}
    /\ status = "running"
    /\ ret = UNDEFINED
    /\ last = Call("new", NoArgs)
    /\ prev_op = "new"
    /\ ncalls = 0
    /\ run = NoRun
    /\ exh = {}
    /\ exh_stack = <<>>
    /\ at_push_frame = <<>>
    /\ at_push_odometer = <<>>
    /\ selects_only = FALSE
    /\ made = EmptyMap
    /\ solutions = <<>>
    /\ count = [op \in Operations |-> 0]
    /\ random = NewRandomCallback

\* ------------------------------------------------------------------
\* A call of select(frame, fm_sect, offset, to_con).
SameRun(to_con, fm_sect, open_sections) ==
    /\ last.op = "select"
    /\ last.a.to_con = to_con
    /\ last.a.fm_sect = fm_sect
    /\ last.a.open_sections = open_sections

Select ==
    /\ Running
    /\ \E to_con \in Connectors, fm_sect \in FromSections(ret),
          open_sections \in Frames :
          LET r == select(_opensel, _lexlit, nuniq, open_sections, fm_sect, to_con)
              lexis_none == r.h = UNDEFINED /\ to_con \notin DOMAIN r.sel._opensect
          IN  /\ _opensel' = r.sel
              /\ _lexlit' = r.lexlit
              /\ nuniq' = r.n
              /\ ret' = r.h
              /\ Record("select", [to_con |-> to_con, fm_sect |-> fm_sect,
                                   open_sections |-> open_sections,
                                   prior |-> Prior])
              /\ run' = IF SameRun(to_con, fm_sect, open_sections)
                        THEN [run EXCEPT !.outs = Append(@, r.h)]
                        ELSE [fresh |-> /\ to_con \notin DOMAIN _lexlit
                                        /\ Get(_opensel._openit, to_con, 0) = 0,
                              outs |-> <<r.h>>]
              /\ exh' = IF lexis_none /\ Len(sections(to_con)) > 0
                        THEN exh \cup {to_con}
                        ELSE IF r.n > nuniq THEN exh \ {to_con} ELSE exh
    /\ UNCHANGED <<config, random, solutions,
                   _lexlit_stack, _opensel_stack, links, status,
                   exh_stack, at_push_frame, at_push_odometer, selects_only,
                   made>>

\* ------------------------------------------------------------------
\* SimpleCallback::push_frame.
PushFrameNoted ==
    /\ at_push_frame' = Append(at_push_frame,
                               [opensel |-> _opensel, lexlit |-> _lexlit])
    /\ selects_only' = TRUE
    /\ run' = NoRun
    /\ ret' = UNDEFINED
    /\ Record("push_frame", NoArgs)
    /\ UNCHANGED <<config, random, solutions,
                   _lexlit, _lexlit_stack, nuniq, links, status,
                   exh, exh_stack, at_push_odometer, made>>

PushFrame_clearfirst ==
    /\ Running
    /\ _opensel_stack' = Append(_opensel_stack, EmptyOpenSelections)
    /\ _opensel' = EmptyOpenSelections
    /\ PushFrameNoted

PushFrame ==
    /\ Running
    /\ _opensel_stack' = Append(_opensel_stack, _opensel)
    /\ _opensel' = EmptyOpenSelections
    /\ PushFrameNoted

\* SimpleCallback::pop_frame.  top() and pop() of an empty std::stack are
\* undefined: the call may crash, or return with whatever top() read.
PopFrameNoted ==
    /\ last' = Call("pop_frame",
                    IF Len(_opensel_stack) > 0
                    THEN [underflow |-> FALSE, saved |-> Top(at_push_frame),
                          before |-> Prior, simple |-> selects_only]
                    ELSE [underflow |-> TRUE])
    /\ prev_op' = last.op
    /\ ncalls' = ncalls + 1
    /\ Counted("pop_frame")
    /\ at_push_frame' = IF Len(at_push_frame) > 0 THEN Pop(at_push_frame)
                        ELSE at_push_frame
    /\ selects_only' = FALSE
    /\ run' = NoRun
    /\ ret' = UNDEFINED
    /\ UNCHANGED <<config, random, solutions,
                   _lexlit, _lexlit_stack, nuniq, links,
                   exh, exh_stack, at_push_odometer, made>>

PopFrame_norestore ==
    /\ Running
    /\ IF Len(_opensel_stack) > 0
       THEN /\ _opensel' = _opensel
            /\ _opensel_stack' = Pop(_opensel_stack)
            /\ status' = status
       ELSE /\ status' \in {"aborted", "undefined"}
            /\ _opensel' \in {_opensel, EmptyOpenSelections}
            /\ _opensel_stack' = _opensel_stack
    /\ PopFrameNoted

PopFrame ==
    /\ Running
    /\ IF Len(_opensel_stack) > 0
       THEN /\ _opensel' = Top(_opensel_stack)
            /\ _opensel_stack' = Pop(_opensel_stack)
            /\ status' = status
       ELSE /\ status' \in {"aborted", "undefined"}
            /\ _opensel' \in {_opensel, EmptyOpenSelections}
            /\ _opensel_stack' = _opensel_stack
    /\ PopFrameNoted

\* What a push_odometer call leaves in the history.
PushOdometerNoted ==
    /\ at_push_odometer' = Append(at_push_odometer, _lexlit)
    /\ exh_stack' = Append(exh_stack, exh)
    /\ exh' = {}
    /\ selects_only' = FALSE
    /\ run' = NoRun
    /\ ret' = UNDEFINED
    /\ Record("push_odometer", NoArgs)
    /\ UNCHANGED <<config, random, solutions,
                   _opensel, _opensel_stack, nuniq, links,
                   status, at_push_frame, made>>

\* push_odometer without the clear() of the cursor map.
PushOdometer_noclear ==
    /\ Running
    /\ _lexlit_stack' = Append(_lexlit_stack, _lexlit)
    /\ _lexlit' = _lexlit
    /\ PushOdometerNoted

\* push_odometer clearing the open-section state as well.
PushOdometer_clearopen ==
    /\ Running
    /\ _lexlit_stack' = Append(_lexlit_stack, _lexlit)
    /\ _lexlit' = EmptyMap
    /\ _opensel' = EmptyOpenSelections
    /\ at_push_odometer' = Append(at_push_odometer, _lexlit)
    /\ exh_stack' = Append(exh_stack, exh)
    /\ exh' = {}
    /\ selects_only' = FALSE
    /\ run' = NoRun
    /\ ret' = UNDEFINED
    /\ Record("push_odometer", NoArgs)
    /\ UNCHANGED <<config, random, solutions, _opensel_stack, nuniq, links,
                   status, at_push_frame, made>>

\* SimpleCallback::push_odometer.
PushOdometer ==
    /\ Running
    /\ _lexlit_stack' = Append(_lexlit_stack, _lexlit)
    /\ _lexlit' = EmptyMap
    /\ PushOdometerNoted

\* SimpleCallback::pop_odometer.  Undefined on an empty stack, as pop_frame.
PopOdometerNoted ==
    /\ last' = Call("pop_odometer",
                    IF Len(_lexlit_stack) > 0
                    THEN [underflow |-> FALSE, saved |-> Top(at_push_odometer),
                          before |-> Prior]
                    ELSE [underflow |-> TRUE])
    /\ prev_op' = last.op
    /\ ncalls' = ncalls + 1
    /\ Counted("pop_odometer")
    /\ at_push_odometer' = IF Len(at_push_odometer) > 0
                           THEN Pop(at_push_odometer) ELSE at_push_odometer
    /\ exh' = IF Len(exh_stack) > 0 THEN Top(exh_stack) ELSE exh
    /\ exh_stack' = IF Len(exh_stack) > 0 THEN Pop(exh_stack) ELSE exh_stack
    /\ selects_only' = FALSE
    /\ run' = NoRun
    /\ ret' = UNDEFINED
    /\ UNCHANGED <<config, random, solutions,
                   _opensel, _opensel_stack, nuniq, links,
                   at_push_frame, made>>

PopOdometer_norestore ==
    /\ Running
    /\ IF Len(_lexlit_stack) > 0
       THEN /\ _lexlit' = _lexlit
            /\ _lexlit_stack' = Pop(_lexlit_stack)
            /\ status' = status
       ELSE /\ status' \in {"aborted", "undefined"}
            /\ _lexlit' \in {_lexlit, EmptyMap}
            /\ _lexlit_stack' = _lexlit_stack
    /\ PopOdometerNoted

PopOdometer ==
    /\ Running
    /\ IF Len(_lexlit_stack) > 0
       THEN /\ _lexlit' = Top(_lexlit_stack)
            /\ _lexlit_stack' = Pop(_lexlit_stack)
            /\ status' = status
       ELSE /\ status' \in {"aborted", "undefined"}
            /\ _lexlit' \in {_lexlit, EmptyMap}
            /\ _lexlit_stack' = _lexlit_stack
    /\ PopOdometerNoted

\* ------------------------------------------------------------------
\* SimpleCallback::make_link.
MakeLinkNoted(args, link) ==
    /\ ret' = link
    /\ made' = Put(made, args, link)
    /\ run' = NoRun
    /\ Record("make_link", args)
    /\ selects_only' = FALSE
    /\ UNCHANGED <<config, random, solutions,
                   policy, nuniq, status, exh, exh_stack,
                   at_push_frame, at_push_odometer>>

MakeLink_lookup ==
    /\ Running
    /\ \E args \in LinkArgs :
          LET link == UndirectedLink(args[1], args[2], args[3], args[4])
          IN  /\ links' = links
              /\ MakeLinkNoted(args, link)

MakeLink ==
    /\ Running
    /\ \E args \in LinkArgs :
          LET link == UndirectedLink(args[1], args[2], args[3], args[4])
          IN  /\ links' = links \cup {link}
              /\ MakeLinkNoted(args, link)

\* have_link forwarding to create_undirected_link, as make_link does.
HaveLink_create ==
    /\ Running
    /\ \E args \in LinkArgs :
          LET link == UndirectedLink(args[1], args[2], args[3], args[4])
          IN  /\ ret' = link
              /\ links' = links \cup {link}
              /\ Record("have_link", args)
    /\ run' = NoRun
    /\ selects_only' = FALSE
    /\ UNCHANGED <<config, random, solutions,
                   policy, nuniq, status, exh, exh_stack,
                   at_push_frame, at_push_odometer, made>>

\* SimpleCallback::have_link.
HaveLink ==
    /\ Running
    /\ \E args \in LinkArgs :
          LET link == UndirectedLink(args[1], args[2], args[3], args[4])
          IN  /\ ret' = IF link \in links THEN link ELSE UNDEFINED
              /\ Record("have_link", args)
    /\ run' = NoRun
    /\ selects_only' = FALSE
    /\ UNCHANGED <<config, random, solutions,
                   policy, nuniq, links, status, exh, exh_stack,
                   at_push_frame, at_push_odometer, made>>

\* SimpleCallback::solution: hands the frame to the solution recorder.
\* The driver calls it for a frame with no open section left.
ClosedFrames == {frm \in Frames : Len(frm) = 0}

record_solution(recorded, frm) == Append(recorded, frm)

Solution ==
    /\ Running
    /\ \E frm \in ClosedFrames :
          /\ solutions' = record_solution(solutions, frm)
          /\ Record("solution", [frm |-> frm, prior |-> Prior])
    /\ run' = NoRun
    /\ ret' = UNDEFINED
    /\ selects_only' = FALSE
    /\ UNCHANGED <<config, random, policy, nuniq, links, status, exh,
                   exh_stack, at_push_frame, at_push_odometer, made>>

\* ------------------------------------------------------------------
Next ==
    \/ Select
    \/ PushFrame
    \/ PopFrame
    \/ PushOdometer
    \/ PopOdometer

Spec == Init /\ [][Next]_vars

\* The driver's calls that realize and probe edges.
NextLinks ==
    \/ MakeLink
    \/ HaveLink

SpecLinks == Init /\ [][NextLinks]_vars

\* Every call of the contract, in any order, on a policy built over the
\* two-entry lexicon.
InitAll == Init /\ _dict = <<"A", "B">>

Within == ncalls < MaxCallsAll

NextAll ==
    \/ Within /\ Select
    \/ Within /\ PushFrame
    \/ Within /\ PopFrame
    \/ Within /\ PushOdometer
    \/ Within /\ PopOdometer
    \/ Within /\ MakeLink
    \/ Within /\ HaveLink
    \/ Within /\ Solution

SpecAll == InitAll /\ [][NextAll]_vars

\* ------------------------------------------------------------------
\* RandomCallback: the weighted-random policy.  Its calls record the
\* members as the call found them.
RandomRecord(op) == Record(op, [random |-> random])

\* Nothing of the SimpleCallback, the links or the recorder changes.
RandomOnly ==
    UNCHANGED <<config, policy, links, status, history, solutions>>

\* std::discrete_distribution over the candidates: one weight for each,
\* the default weight where the section carries none.
discrete_distribution(cands) == [i \in 1..Len(cands) |-> 1]

\* The outcomes a draw from the distribution may give.
Outcomes(dist) == {i \in 1..Len(dist) : dist[i] > 0}

\* RandomCallback::select: an open section of the frame with the connector
\* if there is one, else a unique copy of a section of the dictionary; the
\* candidates and their distribution are recorded when first needed.
RandomSelect ==
    /\ Running
    /\ \E to_con \in Connectors, open_sections \in Frames :
          LET known == to_con \in DOMAIN random._opensel._opensect
              to_sects == IF known THEN random._opensel._opensect[to_con]
                          ELSE OpenCandidates(open_sections, to_con)
              sel == [_opensect |-> Put(random._opensel._opensect,
                                        to_con, to_sects),
                      _opendi |-> Put(random._opensel._opendi, to_con,
                                      discrete_distribution(to_sects))]
              lex == sections(to_con)
              distmap == Put(random._distmap, to_con,
                             discrete_distribution(lex))
          IN  IF to_sects # <<>>
              THEN /\ random' = [random EXCEPT !._opensel = sel]
                   /\ \E i \in Outcomes(sel._opendi[to_con]) :
                         ret' = to_sects[i]
                   /\ nuniq' = nuniq
              ELSE IF lex # <<>>
              THEN /\ random' = [random EXCEPT !._distmap = distmap]
                   /\ \E i \in Outcomes(distmap[to_con]) :
                         ret' = create_unique_section(lex[i], nuniq)
                   /\ nuniq' = nuniq + 1
              ELSE /\ random' = random
                   /\ ret' = UNDEFINED
                   /\ nuniq' = nuniq
    /\ RandomRecord("select")
    /\ RandomOnly

\* RandomCallback::push_frame.
RandomPushFrame ==
    /\ Running
    /\ random' = [random EXCEPT
                    !._opensel_stack = Append(@, random._opensel),
                    !._opensel = EmptyRandomSelections]
    /\ ret' = UNDEFINED
    /\ RandomRecord("push_frame")
    /\ RandomOnly /\ UNCHANGED nuniq

\* RandomCallback::pop_frame, called for a frame that was pushed.
RandomPopFrame ==
    /\ Running
    /\ Len(random._opensel_stack) > 0
    /\ random' = [random EXCEPT
                    !._opensel = Top(random._opensel_stack),
                    !._opensel_stack = Pop(@)]
    /\ ret' = UNDEFINED
    /\ RandomRecord("pop_frame")
    /\ RandomOnly /\ UNCHANGED nuniq

\* push_odometer clearing the distributions of the lexicon.
RandomPushOdometer_clear ==
    /\ Running
    /\ random' = [random EXCEPT !._distmap = EmptyMap]
    /\ ret' = UNDEFINED
    /\ RandomRecord("push_odometer")
    /\ RandomOnly /\ UNCHANGED nuniq

\* GenerateCallback::push_odometer, which RandomCallback does not override.
RandomPushOdometer ==
    /\ Running
    /\ random' = random
    /\ ret' = UNDEFINED
    /\ RandomRecord("push_odometer")
    /\ RandomOnly /\ UNCHANGED nuniq

\* GenerateCallback::pop_odometer, which RandomCallback does not override.
RandomPopOdometer ==
    /\ Running
    /\ random' = random
    /\ ret' = UNDEFINED
    /\ RandomRecord("pop_odometer")
    /\ RandomOnly /\ UNCHANGED nuniq

NextRandom ==
    \/ RandomSelect
    \/ RandomPushFrame
    \/ RandomPopFrame
    \/ RandomPushOdometer
    \/ RandomPopOdometer

SpecRandom == Init /\ [][NextRandom]_vars

\* ------------------------------------------------------------------
\* Properties.

IsSelect == last.op = "select"
ToCon == last.a.to_con
FmSect == last.a.fm_sect
OpenOfCall == OpenCandidates(last.a.open_sections, ToCon)
PriorFit == Get(last.a.prior.opensel._openit, ToCon, 0)
PriorCur == Get(last.a.prior.lexlit, ToCon, 0)

LexNames(seq) == [i \in 1..Len(seq) |-> seq[i].lex]
IsPrefix(s, t) == Len(s) <= Len(t) /\ \A i \in 1..Len(s) : s[i] = t[i]

\* The results of a run up to and including the first UNDEFINED.
RECURSIVE UpToNone(_)
UpToNone(outs) ==
    IF outs = <<>> THEN <<>>
    ELSE IF Head(outs) = UNDEFINED THEN <<UNDEFINED>>
         ELSE <<Head(outs)>> \o UpToNone(Tail(outs))

\* The sections of the dictionary for con that are not fm_sect.
NonSelf(con, fm_sect) ==
    LET Other(s) == s # fm_sect IN SelectSeq(sections(con), Other)

\* The cursor state is what the last call found.
Untouched ==
    /\ _lexlit = last.a.prior.lexlit
    /\ _opensel = last.a.prior.opensel
    /\ _lexlit_stack = last.a.prior.lexlit_stack
    /\ _opensel_stack = last.a.prior.opensel_stack

\* C1 (as claimed): with allow_self_connections false, an unbroken run of
\* select() calls with the same arguments, started with no cursor for the
\* connector, returns the dictionary's sections for the connector that are
\* not fm_sect, in lexicon order, and then UNDEFINED.
C1_NonSelfLexiconRun ==
    (IsSelect /\ ~allow_self_connections /\ run.fresh)
    => IsPrefix(LexNames(UpToNone(run.outs)),
                LexNames(NonSelf(ToCon, FmSect)) \o <<"UNDEFINED">>)

\* C1 (amended): with allow_self_connections false, an unbroken run of
\* select() calls with the same arguments, started with no cursor for the
\* connector and on a frame none of whose open sections has the connector,
\* returns a fresh unique copy of every section the dictionary has for the
\* connector, fm_sect's own entry included, in lexicon order, and then
\* UNDEFINED.
C1_LexiconRun ==
    (IsSelect /\ ~allow_self_connections /\ run.fresh /\ OpenOfCall = <<>>)
    => LET out == UpToNone(run.outs)
       IN  /\ IsPrefix(LexNames(out),
                       LexNames(sections(ToCon)) \o <<"UNDEFINED">>)
           /\ \A i \in 1..Len(out) :
                 out[i] # UNDEFINED =>
                    /\ out[i].inst > 0
                    /\ out[i] # FmSect
                    /\ \A j \in 1..Len(out) : j # i => out[j] # out[i]

C1_Witness ==
    /\ IsSelect /\ ~allow_self_connections /\ run.fresh /\ OpenOfCall = <<>>
    /\ FmSect = Section("A", 0)
    /\ LexNames(run.outs) = <<"A", "B", "UNDEFINED">>

\* C2 (as claimed): after push_frame; select()*; pop_frame the lexicon
\* cursors and the open-section cursors and candidate lists are what they
\* were right before the push_frame.
C2_PopFrameRestoresAll ==
    (last.op = "pop_frame" /\ ~last.a.underflow /\ last.a.simple)
    => /\ _opensel = last.a.saved.opensel
       /\ _lexlit = last.a.saved.lexlit

\* C2 (amended): after push_frame; select()*; pop_frame the open-section
\* cursors and candidate lists are what they were right before the
\* push_frame; the lexicon cursors are what the select() calls in between
\* left, pop_frame does not restore them.
C2_PopFrameRestoresOpen ==
    (last.op = "pop_frame" /\ ~last.a.underflow /\ last.a.simple)
    => /\ _opensel = last.a.saved.opensel
       /\ _lexlit = last.a.before.lexlit

C2_Witness ==
    /\ last.op = "pop_frame" /\ ~last.a.underflow /\ last.a.simple
    /\ _opensel # last.a.before.opensel
    /\ _opensel # EmptyOpenSelections
    /\ _lexlit # last.a.saved.lexlit

\* C3: with allow_self_connections false, select() never returns a section
\* equal to its fm_sect argument.
C3_NoSelfConnection ==
    (IsSelect /\ ~allow_self_connections /\ ret # UNDEFINED) => ret # FmSect

\* fm_sect was the first open candidate, and a later one was returned.
C3_Witness ==
    /\ IsSelect /\ ~allow_self_connections
    /\ PriorFit = 0 /\ OpenOfCall # <<>> /\ OpenOfCall[1] = FmSect
    /\ ret # UNDEFINED /\ ret \in Range(OpenOfCall)

\* C4: with allow_self_connections true, the first select() for a connector
\* in a frame with an open section that has the connector returns the first
\* such section, also when it is fm_sect, and leaves the open cursor at 1.
C4_SelfConnectionEligible ==
    (IsSelect /\ allow_self_connections /\ PriorFit = 0 /\ OpenOfCall # <<>>)
    => /\ ret = OpenOfCall[1]
       /\ Get(_opensel._openit, ToCon, 0) = PriorFit + 1

C4_Witness ==
    /\ IsSelect /\ allow_self_connections /\ PriorFit = 0
    /\ OpenOfCall # <<>> /\ ret = FmSect

\* C5 (as claimed): in an unbroken run of select() calls with the same
\* arguments, every result after an UNDEFINED is UNDEFINED.
C5_NoneIsAbsorbing ==
    IsSelect =>
        \A i, j \in 1..Len(run.outs) :
            (i < j /\ run.outs[i] = UNDEFINED) => run.outs[j] = UNDEFINED

\* C5 (amended): a select() for a connector that is a key of the frame's
\* open-candidate cache returns UNDEFINED and leaves it a key; a select()
\* that returns UNDEFINED for a connector that is no such key leaves the
\* connector without a lexicon cursor, so the lexicon starts over.
C5_NoneByCacheOrErasedCursor ==
    IsSelect =>
        /\ ToCon \in DOMAIN last.a.prior.opensel._opensect
              => ret = UNDEFINED /\ ToCon \in DOMAIN _opensel._opensect
        /\ (ret = UNDEFINED /\ ToCon \notin DOMAIN _opensel._opensect)
              => ToCon \notin DOMAIN _lexlit

C5_Witness ==
    /\ IsSelect /\ Len(run.outs) >= 3
    /\ run.outs[1] # UNDEFINED /\ run.outs[2] = UNDEFINED
    /\ run.outs[3] # UNDEFINED /\ run.outs[3].lex = run.outs[1].lex

\* The result of the last select() came from the lexicon.
FromLexis == ret # UNDEFINED /\ ret \notin Range(last.a.open_sections)

\* C6 (as claimed): a select() right after pop_odometer, for a connector
\* whose lexicon had run out at the restored level, does not return a
\* section from the lexicon.
C6_ExhaustedSurvivesPop ==
    (IsSelect /\ prev_op = "pop_odometer" /\ ToCon \in last.a.prior.exh)
    => ~FromLexis

\* C6 (amended): pop_odometer restores a cursor map without a cursor for a
\* connector whose lexicon had run out at that level, so a select() right
\* after it, whose open-section phase finds nothing, returns a copy of the
\* first dictionary section again and sets the cursor to 1.
C6_ExhaustedRestartsAfterPop ==
    /\ (last.op = "pop_odometer" /\ ~last.a.underflow)
          => \A c \in exh : c \notin DOMAIN _lexlit
    /\ (IsSelect /\ prev_op = "pop_odometer" /\ ToCon \in last.a.prior.exh)
          => /\ PriorCur = 0
             /\ (PriorFit = 0 /\ OpenOfCall = <<>>)
                   => /\ ret = Section(sections(ToCon)[1].lex, nuniq)
                      /\ _lexlit[ToCon] = 1

C6_Witness ==
    /\ IsSelect /\ prev_op = "pop_odometer" /\ ToCon \in last.a.prior.exh
    /\ FromLexis

\* C7: right after pop_odometer the lexicon cursor map is what it was right
\* before the matching push_odometer, and right after pop_frame the open
\* cursors and candidate lists are what they were right before the matching
\* push_frame.
C7_PopRestoresScope ==
    /\ (last.op = "pop_odometer" /\ ~last.a.underflow)
          => _lexlit = last.a.saved
    /\ (last.op = "pop_frame" /\ ~last.a.underflow)
          => _opensel = last.a.saved.opensel

\* A pop inside another scope that brought cursors back.
C7_Witness ==
    /\ last.op = "pop_frame" /\ ~last.a.underflow
    /\ Len(_opensel_stack) + Len(_lexlit_stack) >= 1
    /\ _opensel # last.a.before.opensel
    /\ _opensel # EmptyOpenSelections

\* C8: a pop_frame or pop_odometer on an empty stack ends in an abort.
C8_UnderflowAborts ==
    (last.op \in {"pop_frame", "pop_odometer"} /\ last.a.underflow)
    => status = "aborted"

C10_HaveLinkAfterMakeLink ==
    last.op = "have_link" =>
        /\ last.a \in DOMAIN made => ret = made[last.a]
        /\ (\A args \in DOMAIN made :
                 made[args] # UndirectedLink(last.a[1], last.a[2],
                                             last.a[3], last.a[4]))
              => ret = UNDEFINED

C10_Witness ==
    /\ last.op = "have_link" /\ last.a \in DOMAIN made
    /\ ret = made[last.a] /\ Cardinality(DOMAIN made) >= 2

\* A step that is a call of the operation.
Calls(op) == ncalls' = ncalls + 1 /\ last'.op = op

\* C11: a have_link call, whether it finds a link or returns UNDEFINED,
\* leaves the set of links, the lexicon cursors, the open-section cursors
\* and candidate lists, and both snapshot stacks as they were.
C11_HaveLinkIsPureLookup ==
    [][Calls("have_link") =>
          /\ links' = links
          /\ _lexlit' = _lexlit /\ _lexlit_stack' = _lexlit_stack
          /\ _opensel' = _opensel /\ _opensel_stack' = _opensel_stack]_vars

\* have_link found nothing, with links made and cursors set before it.
C11_Witness ==
    /\ last.op = "have_link" /\ ret = UNDEFINED
    /\ links # {} /\ _lexlit # EmptyMap /\ _opensel # EmptyOpenSelections

\* C12: after any sequence of calls that returned, the depth of the
\* frame-snapshot stack is the number of push_frame calls minus the number
\* of pop_frame calls, and the depth of the odometer-snapshot stack is the
\* number of push_odometer calls minus the number of pop_odometer calls; so
\* select, make_link, have_link and solution change neither depth.
C12_StackDepthIsPushesMinusPops ==
    status # "aborted" =>
        /\ Len(_opensel_stack) = count["push_frame"] - count["pop_frame"]
        /\ Len(_lexlit_stack) = count["push_odometer"] - count["pop_odometer"]

\* The open sections of the frame of the last select() that have the
\* connector and are not ruled out as a self-connection, in frame order.
EligibleOpen ==
    LET Ok(s) == allow_self_connections \/ s # FmSect
    IN  SelectSeq(OpenOfCall, Ok)

\* C13: a select() for a connector that has no open-section cursor, on a
\* frame with an eligible open section, returns the first eligible open
\* section and leaves the lexicon cursors as they were; a select() returns
\* a section from the lexicon only when there was no open-section cursor
\* and no eligible open section.
C13_OpenSectionsFirst ==
    IsSelect =>
        /\ (PriorFit = 0 /\ EligibleOpen # <<>>)
              => ret = EligibleOpen[1] /\ _lexlit = last.a.prior.lexlit
        /\ FromLexis => (PriorFit = 0 /\ EligibleOpen = <<>>)

\* The lexicon had a cursor and more to give, the first open candidate was
\* fm_sect itself, and the open section after it was returned.
C13_Witness ==
    /\ IsSelect /\ ~allow_self_connections /\ PriorFit = 0
    /\ OpenOfCall # <<>> /\ OpenOfCall[1] = FmSect
    /\ EligibleOpen # <<>> /\ ret = EligibleOpen[1]
    /\ PriorCur > 0 /\ PriorCur < Len(sections(ToCon))

\* C14: in an unbroken run of select() calls with the same arguments,
\* started with no cursor for the connector, on a frame with k >= 2 eligible
\* open candidates, the i-th call returns the i-th eligible candidate, for
\* every i up to k.
C14_OpenCandidatesInOrder ==
    (IsSelect /\ run.fresh /\ Len(EligibleOpen) >= 2)
    => \A i \in 1..Len(run.outs) :
          i <= Len(EligibleOpen) => run.outs[i] = EligibleOpen[i]

\* C15: a select() for a connector that is a key of the frame's
\* open-candidate cache, that returns no open section, returns UNDEFINED;
\* the connector's lexicon cursor is not created, not advanced and not
\* erased.
C15_NoLexiconOnceAttempted ==
    (IsSelect /\ ToCon \in DOMAIN last.a.prior.opensel._opensect
              /\ ret \notin Range(OpenOfCall))
    => /\ ret = UNDEFINED
       /\ (ToCon \in DOMAIN _lexlit) = (ToCon \in DOMAIN last.a.prior.lexlit)
       /\ Get(_lexlit, ToCon, 0) = PriorCur

\* The lexicon had a cursor for the connector and more sections to give.
C15_Witness ==
    /\ IsSelect /\ ToCon \in DOMAIN last.a.prior.opensel._opensect
    /\ ret = UNDEFINED
    /\ PriorCur > 0 /\ PriorCur < Len(sections(ToCon))

\* C16: right after push_odometer no connector has a lexicon cursor, and a
\* select() right after it that gets to the lexicon, for a connector with
\* dictionary sections, returns a unique copy of the first of them and sets
\* the cursor to 1; right after push_frame no connector has an open-section
\* cursor or a cached candidate list, and a select() right after it takes
\* its open candidates from the frame it is handed.
C16_PushStartsFreshScope ==
    /\ last.op = "push_odometer" => _lexlit = EmptyMap
    /\ last.op = "push_frame" => _opensel = EmptyOpenSelections
    /\ (IsSelect /\ prev_op = "push_odometer")
          => /\ PriorCur = 0
             /\ (PriorFit = 0 /\ EligibleOpen = <<>> /\ sections(ToCon) # <<>>)
                   => /\ ret = Section(sections(ToCon)[1].lex, nuniq)
                      /\ nuniq > 0
                      /\ _lexlit = Put(EmptyMap, ToCon, 1)
    /\ (IsSelect /\ prev_op = "push_frame")
          => /\ PriorFit = 0
             /\ DOMAIN last.a.prior.opensel._opensect = {}
             /\ EligibleOpen # <<>> => ret = EligibleOpen[1]
             /\ EligibleOpen = <<>> => ret \notin Range(OpenOfCall)

\* The connector's cursor was past the first section before the push.
C16_Witness ==
    /\ IsSelect /\ prev_op = "push_odometer"
    /\ Get(Top(last.a.prior.lexlit_stack), ToCon, 0) >= 2
    /\ ret = Section(sections(ToCon)[1].lex, nuniq)

\* The members of the RandomCallback as the last call found them.
RandomBefore == last.a.random

\* C17 (as claimed): RandomCallback's state is scoped as SimpleCallback's:
\* right after push_odometer the state of the lexicon phase is cleared;
\* right after push_frame the state of the open-section phase is saved and
\* cleared, and right after pop_frame it is the saved one again.
C17_RandomScopesBoth ==
    /\ last.op = "push_odometer" => random._distmap = EmptyMap
    /\ last.op = "push_frame"
          => /\ random._opensel = EmptyRandomSelections
             /\ Top(random._opensel_stack) = RandomBefore._opensel
    /\ last.op = "pop_frame"
          => random._opensel = Top(RandomBefore._opensel_stack)

\* C17 (amended): RandomCallback's push_odometer and pop_odometer are the
\* contract's empty hooks: they change no member, the distributions of the
\* lexicon phase are kept for the life of the policy and there is no stack
\* of them.  push_frame pushes the state of the open-section phase
\* (candidate lists and distributions) and clears it, pop_frame restores
\* it and pops; neither touches the distributions of the lexicon phase.
C17_RandomScopesOpenOnly ==
    /\ last.op \in {"push_odometer", "pop_odometer"}
          => random = RandomBefore
    /\ last.op = "push_frame"
          => /\ random._opensel = EmptyRandomSelections
             /\ random._opensel_stack =
                    Append(RandomBefore._opensel_stack, RandomBefore._opensel)
             /\ random._distmap = RandomBefore._distmap
    /\ last.op = "pop_frame"
          => /\ random._opensel = Top(RandomBefore._opensel_stack)
             /\ random._opensel_stack = Pop(RandomBefore._opensel_stack)
             /\ random._distmap = RandomBefore._distmap

\* push_odometer called with distributions of both phases recorded.
C17_Witness ==
    /\ last.op = "push_odometer"
    /\ random._distmap # EmptyMap
    /\ random._opensel # EmptyRandomSelections
    /\ Len(random._opensel_stack) > 0

\* Every cursor of the map is at least 1 and at most the number of
\* sections the dictionary has for its connector.
CursorsInBounds(lexlit) ==
    \A c \in DOMAIN lexlit :
        1 <= lexlit[c] /\ lexlit[c] <= Len(sections(c))

\* C18: every lexicon cursor, in the current map and in every snapshot on
\* the odometer stack, is at least 1 and at most the number of sections the
\* dictionary has for its connector; and a select() that returns a section
\* from the lexicon found a cursor below that number and returns a copy of
\* the section at that index.
C18_LexiconCursorBounds ==
    /\ CursorsInBounds(_lexlit)
    /\ \A i \in 1..Len(_lexlit_stack) : CursorsInBounds(_lexlit_stack[i])
    /\ (IsSelect /\ FromLexis)
          => /\ PriorCur < Len(sections(ToCon))
             /\ ret.lex = sections(ToCon)[PriorCur + 1].lex
             /\ _lexlit[ToCon] = PriorCur + 1

\* A cursor at the end of its list, above a snapshot that holds cursors.
C18_Witness ==
    /\ \E c \in DOMAIN _lexlit :
          _lexlit[c] >= 2 /\ _lexlit[c] = Len(sections(c))
    /\ Len(_lexlit_stack) > 0 /\ Top(_lexlit_stack) # EmptyMap

\* C19: a push_frame or pop_frame call leaves the lexicon cursor map and
\* the odometer-snapshot stack as they were; a push_odometer or
\* pop_odometer call leaves the open-section cursors, the cached candidate
\* lists and the frame-snapshot stack as they were.
C19_ScopeSeparation ==
    [][/\ (Calls("push_frame") \/ Calls("pop_frame"))
             => _lexlit' = _lexlit /\ _lexlit_stack' = _lexlit_stack
       /\ (Calls("push_odometer") \/ Calls("pop_odometer"))
             => _opensel' = _opensel /\ _opensel_stack' = _opensel_stack]_vars

\* pop_odometer brought other lexicon cursors back, with open-section
\* cursors set and a frame snapshot on the stack.
C19_Witness ==
    /\ last.op = "pop_odometer" /\ ~last.a.underflow
    /\ _lexlit # last.a.before.lexlit
    /\ last.a.before.lexlit # EmptyMap
    /\ _opensel # EmptyOpenSelections /\ Len(_opensel_stack) > 0

\* The two maps have the same entry, or both none, under the key.
SameEntry(m1, m2, k) ==
    /\ (k \in DOMAIN m1) = (k \in DOMAIN m2)
    /\ k \in DOMAIN m1 => m1[k] = m2[k]

\* C20: a select() for a connector leaves the lexicon cursor, the
\* open-section cursor and the cached candidate list of every other
\* connector, and both snapshot stacks, as they were.
C20_PerConnectorIsolation ==
    IsSelect =>
        /\ \A d \in Connectors \ {ToCon} :
              /\ SameEntry(_lexlit, last.a.prior.lexlit, d)
              /\ SameEntry(_opensel._openit, last.a.prior.opensel._openit, d)
              /\ SameEntry(_opensel._opensect,
                           last.a.prior.opensel._opensect, d)
        /\ _lexlit_stack = last.a.prior.lexlit_stack
        /\ _opensel_stack = last.a.prior.opensel_stack

\* The select() ended the lexicon of its connector and erased the cursor,
\* while another connector had a lexicon cursor and an open-section cursor.
C20_Witness ==
    /\ IsSelect /\ PriorCur > 0 /\ ToCon \notin DOMAIN _lexlit
    /\ \E d \in Connectors \ {ToCon} :
          d \in DOMAIN _lexlit /\ d \in DOMAIN _opensel._openit

\* The calls within which a run of select() must have returned UNDEFINED:
\* one more than the open candidates and the dictionary sections together.
RunBound == Len(OpenOfCall) + Len(sections(ToCon)) + 1

\* C21: in an unbroken run of select() calls with the same arguments, from
\* whatever cursor state it starts, fewer than RunBound calls in a row
\* return a section: among any RunBound calls in a row one returns
\* UNDEFINED.
C21_RunReturnsNoneInBound ==
    IsSelect =>
        \A i \in 1..Len(run.outs) :
            i + RunBound - 1 <= Len(run.outs)
            => \E j \in i..(i + RunBound - 1) : run.outs[j] = UNDEFINED

\* The run gave every section of the lexicon and then UNDEFINED, on its
\* last call within the bound, and then started over.
C21_Witness ==
    /\ IsSelect /\ Len(run.outs) > RunBound
    /\ \A j \in 1..(RunBound - 1) : run.outs[j] # UNDEFINED
    /\ run.outs[RunBound] = UNDEFINED
    /\ RunBound >= 3
====
